---- MODULE Spec2Model ----
(***************************************************************************)
(* foyer/general_forcefield.py: preprocess_forcefield_files and the        *)
(* Forcefield constructor with its three backend parse routines.           *)
(*                                                                         *)
(* Texts are sequences of one-character strings.  An XML document is       *)
(* [attrib, elems]: the root's attributes and its children [tag, kids]; a  *)
(* kid is [id, attrib].  Tags and attribute names are sequences of word    *)
(* pieces so that the substring tests of the code ('Force' in tag, 'type'  *)
(* in attr_name) are computed, not assumed.                                *)
(***************************************************************************)
EXTENDS Integers, Sequences, FiniteSets, TLC

VARIABLES
    fn_pc,     \* stage of the function-level specifications
    fn_in,     \* argument of the function under check
    fn_out,    \* its result
    \* Forcefield(forcefield_files, name, validation, backend)
    forcefield_files,    \* argument: None, or [kind, items]
    name_arg,            \* argument name: None or a forcefield name
    validation,          \* argument
    backend,             \* argument
    pc,                  \* where the constructor stands
    all_files_to_load,   \* local of __init__: Unbound or a list of files
    written,             \* preprocess_forcefield_files' own preprocessed_files list
    preprocessed_files,  \* local of __init__: Unbound or the list returned
    disk,                \* temporary files on disk: name -> content
    roots,               \* per input handled: did ET.fromstring parse it
    warned,              \* inputs for which warnings.warn was called
    validated,           \* temporary files handed to Validator, in order
    parse_calls,         \* parse routines whose body started, in order
    raised,              \* None, or the exception leaving the constructor
    obj                  \* self: the fields of the object under construction

fn_vars == <<fn_pc, fn_in, fn_out>>
ctor_vars == <<forcefield_files, name_arg, validation, backend, pc, all_files_to_load,
               written, preprocessed_files, disk, roots, warned, validated,
               parse_calls, raised, obj>>
vars == <<fn_vars, ctor_vars>>

None == "None"
Unbound == "Unbound"

\* the variables of the constructor while a single function is under check,
\* and the other way round
CtorIdle ==
    /\ forcefield_files = None /\ name_arg = None /\ validation = FALSE
    /\ backend = None /\ pc = "idle" /\ all_files_to_load = Unbound
    /\ written = <<>> /\ preprocessed_files = Unbound /\ disk = <<>>
    /\ roots = <<>> /\ warned = {} /\ validated = <<>> /\ parse_calls = <<>>
    /\ raised = None /\ obj = None

FnIdle == fn_pc = "idle" /\ fn_in = None /\ fn_out = None

(***************************************************************************)
(* Bounds                                                                  *)
(***************************************************************************)
MaxTokens == 5      \* pieces of text per input of the escaping step
MaxKids == 3        \* children per element of a document to sort
MaxTypes == 2       \* Type children of the AtomTypes element given to _parse_mm
MaxFiles == 2       \* files given to the constructor

(***************************************************************************)
(* Generic helpers                                                         *)
(***************************************************************************)
RECURSIVE Flatten(_)
Flatten(ss) == IF ss = <<>> THEN <<>> ELSE Head(ss) \o Flatten(Tail(ss))

SeqsUpTo(S, n) == UNION { [1..k -> S] : k \in 0..n }

\* s[i..j] (empty when j < i)
Slice(s, i, j) == SubSeq(s, i, j)

\* does text s hold the literal lit at position i
HasAt(s, i, lit) ==
    /\ i >= 1
    /\ i + Len(lit) - 1 <= Len(s)
    /\ \A k \in 1..Len(lit) : s[i + k - 1] = lit[k]

(***************************************************************************)
(* The escaping step, line 54: an outer re.sub whose pattern has three     *)
(* groups: group 1 is def, word characters, =, word characters and a       *)
(* quote; group 2 is a greedy run of any characters but newline; group 3   *)
(* is a quote.  The replacement keeps groups 1 and 3 and applies an inner  *)
(* re.sub to group 2 that rewrites each & not followed by amp; to &amp;    *)
(***************************************************************************)
LitDef  == <<"d", "e", "f">>
LitAmp  == <<"a", "m", "p", ";">>
LitEsc  == <<"&", "a", "m", "p", ";">>
Quotes  == {"\"", "'"}
WordChars == {"d", "e", "f", "a", "m", "p", "x"}   \* \w over the alphabet used
Newline == "\n"

\* first position >= i that holds no word character (Len+1 at the end): \w*
\* is greedy, and what follows it in the pattern is never a word character
RECURSIVE WordRunEnd(_, _)
WordRunEnd(s, i) ==
    IF i > Len(s) \/ s[i] \notin WordChars THEN i ELSE WordRunEnd(s, i + 1)

\* first position >= i holding a newline (Len+1 at the end): '.' stops there
RECURSIVE LineEnd(_, _)
LineEnd(s, i) ==
    IF i > Len(s) \/ s[i] = Newline THEN i ELSE LineEnd(s, i + 1)

\* last quote in s[lo..hi], 0 when there is none: greedy (.*) backtracks to it
RECURSIVE LastQuote(_, _, _)
LastQuote(s, lo, hi) ==
    IF hi < lo THEN 0
    ELSE IF s[hi] \in Quotes THEN hi ELSE LastQuote(s, lo, hi - 1)

\* group 1 tried at position i: the position of its closing quote, 0 when
\* it does not match there
Group1At(s, i) ==
    LET k1 == WordRunEnd(s, i + 3)
        k2 == WordRunEnd(s, k1 + 1)
    IN  IF /\ HasAt(s, i, LitDef)
           /\ k1 <= Len(s) /\ s[k1] = "="
           /\ k2 <= Len(s) /\ s[k2] \in Quotes
        THEN k2 ELSE 0

\* the outer pattern tried at position i: [ok, open, close] where open is the
\* position of the quote ending group 1 and close the position of group 3
MatchAt(s, i) ==
    LET open == Group1At(s, i)
        eol == LineEnd(s, open + 1)
        cl == LastQuote(s, open + 1, eol - 1)
    IN  IF open # 0 /\ cl # 0
        THEN [ok |-> TRUE, open |-> open, close |-> cl]
        ELSE [ok |-> FALSE, open |-> 0, close |-> 0]

\* re.sub(r"&(?!amp;)", r"&amp;", g), scanning g from position i
RECURSIVE EscapeAmpFrom(_, _)
EscapeAmpFrom(g, i) ==
    IF i > Len(g) THEN <<>>
    ELSE IF g[i] = "&" /\ ~HasAt(g, i + 1, LitAmp)
         THEN LitEsc \o EscapeAmpFrom(g, i + 1)
         ELSE <<g[i]>> \o EscapeAmpFrom(g, i + 1)

EscapeAmp(g) == EscapeAmpFrom(g, 1)

\* the outer re.sub from position i: leftmost match, replaced, then on after it
RECURSIVE ReSubFrom(_, _)
ReSubFrom(s, i) ==
    IF i > Len(s) THEN <<>>
    ELSE LET m == MatchAt(s, i)
         IN  IF m.ok
             THEN Slice(s, i, m.open)
                  \o EscapeAmp(Slice(s, m.open + 1, m.close - 1))
                  \o <<s[m.close]>>
                  \o ReSubFrom(s, m.close + 1)
             ELSE <<s[i]>> \o ReSubFrom(s, i + 1)

EscapeDefs(xml_contents) == ReSubFrom(xml_contents, 1)

(***************************************************************************)
(* Specification of the escaping step alone: every text of at most         *)
(* MaxTokens pieces is read and escaped.                                   *)
(***************************************************************************)
TextPieces ==
    { <<"d", "e", "f", "=">>, <<"\"">>, <<"&">>, LitAmp, <<"x">>, <<" ">>, <<Newline>> }

InitEscape ==
    /\ CtorIdle
    /\ fn_pc = "read"
    /\ fn_in \in { Flatten(ps) : ps \in SeqsUpTo(TextPieces, MaxTokens) }
    /\ fn_out = None

Escape ==
    /\ fn_pc = "read"
    /\ fn_out' = EscapeDefs(fn_in)
    /\ fn_pc' = "escaped"
    /\ UNCHANGED <<fn_in, ctor_vars>>

SpecEscape == InitEscape /\ [][Escape]_vars

(***************************************************************************)
(* What the claim calls a def attribute value: what follows the opening    *)
(* quote of a def attribute (taken as the pattern's group 1 takes it), up  *)
(* to the next quote of the same kind on that line: the reading most       *)
(* favourable to the pattern.                                              *)
(***************************************************************************)
RECURSIVE NextQuote(_, _, _)
NextQuote(s, i, q) ==
    IF i > Len(s) THEN 0 ELSE IF s[i] = q THEN i ELSE NextQuote(s, i + 1, q)

\* the text with exactly the stray & of def values escaped
RECURSIVE OnlyDefValuesEscaped(_, _)
OnlyDefValuesEscaped(s, i) ==
    IF i > Len(s) THEN <<>>
    ELSE LET o == Group1At(s, i)
             c == IF o # 0 THEN NextQuote(s, o + 1, s[o]) ELSE 0
         IN  IF o # 0 /\ c # 0 /\ c < LineEnd(s, o + 1)
             THEN Slice(s, i, o) \o EscapeAmp(Slice(s, o + 1, c - 1)) \o <<s[c]>>
                  \o OnlyDefValuesEscaped(s, c + 1)
             ELSE <<s[i]>> \o OnlyDefValuesEscaped(s, i + 1)

\* C1 (as claimed): the escaping step escapes every stray & inside a def
\* attribute value, keeps every &amp; there, and alters nothing outside the
\* def attribute values.
C1_EscapesExactlyDefValues ==
    fn_pc = "escaped" => fn_out = OnlyDefValuesEscaped(fn_in, 1)

(***************************************************************************)
(* The ordering step, lines 63-69.  ET.fromstring gives the root; a child  *)
(* of root is [tag, kids]; a kid is [id, attrib], id standing for the      *)
(* identity of the Element object and attrib for its attribute dictionary. *)
(***************************************************************************)
\* 'piece' in name, for names made of word pieces
HasSub(name, piece) == \E i \in DOMAIN name : name[i] = piece

\* a slip: the sign of the key lost, fewest type attributes first
SortKeyUnsigned(child) ==
    Cardinality({ attr_name \in DOMAIN child.attrib : HasSub(attr_name, "type") })

\* the sort key of lines 66-68: -1 * len([attr_name for attr_name in
\* child.keys() if 'type' in attr_name])
SortKey(child) ==
    -1 * Cardinality({ attr_name \in DOMAIN child.attrib : HasSub(attr_name, "type") })

\* sorted(): stable, ascending by key; x goes after every element whose key
\* is not greater than its own
RECURSIVE InsertStable(_, _)
InsertStable(x, done) ==
    IF done = <<>> THEN <<x>>
    ELSE IF SortKey(Head(done)) <= SortKey(x)
         THEN <<Head(done)>> \o InsertStable(x, Tail(done))
         ELSE <<x>> \o done

RECURSIVE SortedFrom(_, _)
SortedFrom(kids, done) ==
    IF kids = <<>> THEN done
    ELSE SortedFrom(Tail(kids), InsertStable(Head(kids), done))

Sorted(kids) == SortedFrom(kids, <<>>)

\* lines 64-68: for element in root: if 'Force' in element.tag: element[:] = sorted(...)
SortElement(element) ==
    IF HasSub(element.tag, "Force")
    THEN [element EXCEPT !.kids = Sorted(element.kids)]
    ELSE element

SortByPrecedence(root) == [i \in DOMAIN root |-> SortElement(root[i])]

(***************************************************************************)
(* Specification of the ordering step alone: every document of one or two  *)
(* elements, each with at most MaxKids children carrying zero, one or two  *)
(* type attributes.                                                        *)
(***************************************************************************)
AttrV == <<"v">>
KidAttribs ==
    { [a \in { <<"class", "1">>, <<"class", "2">> } |-> AttrV],
      [a \in { <<"type", "1">>, <<"class", "2">> } |-> AttrV],
      [a \in { <<"type", "1">>, <<"type", "2">> } |-> AttrV] }

KidSeqs == { [i \in DOMAIN as |-> [id |-> i, attrib |-> as[i]]] :
             as \in SeqsUpTo(KidAttribs, MaxKids) }

SortTags == { <<"AtomTypes">>, <<"Harmonic", "Bond", "Force">> }

SortElements == { [tag |-> t, kids |-> ks] : t \in SortTags, ks \in KidSeqs }

InitSort ==
    /\ CtorIdle
    /\ fn_pc = "parsed"
    /\ fn_in \in { <<a>> : a \in SortElements } \cup
                 { <<a, b>> : a \in SortElements, b \in SortElements }
    /\ fn_out = None

Sort ==
    /\ fn_pc = "parsed"
    /\ fn_out' = SortByPrecedence(fn_in)
    /\ fn_pc' = "sorted"
    /\ UNCHANGED <<fn_in, ctor_vars>>

SpecSort == InitSort /\ [][Sort]_vars

TypeCount(child) ==
    Cardinality({ a \in DOMAIN child.attrib : HasSub(a, "type") })

\* C2: after the ordering step each Force element holds a permutation of its
\* children, by non-increasing count of type attributes, equal counts in
\* their original relative order; the other elements keep their children as
\* they were.
C2_ForceChildrenSortedStable ==
    fn_pc = "sorted" =>
        /\ Len(fn_out) = Len(fn_in)
        /\ \A e \in DOMAIN fn_in :
            LET old == fn_in[e].kids
                new == fn_out[e].kids
            IN  /\ fn_out[e].tag = fn_in[e].tag
                /\ IF HasSub(fn_in[e].tag, "Force")
                   THEN /\ Len(new) = Len(old)
                        /\ \A k \in DOMAIN old : \E j \in DOMAIN new : new[j] = old[k]
                        /\ \A i, j \in DOMAIN new :
                            i < j => \/ TypeCount(new[i]) > TypeCount(new[j])
                                     \/ /\ TypeCount(new[i]) = TypeCount(new[j])
                                        /\ new[i].id < new[j].id
                   ELSE new = old

\* a Force element whose children were really moved, with a tie among them,
\* beside an element that is no Force
C2_Witness ==
    /\ fn_pc = "sorted"
    /\ \E e \in DOMAIN fn_in :
        /\ HasSub(fn_in[e].tag, "Force")
        /\ fn_out[e].kids # fn_in[e].kids
        /\ \E i, j \in DOMAIN fn_in[e].kids :
            i < j /\ TypeCount(fn_in[e].kids[i]) = TypeCount(fn_in[e].kids[j])
    /\ \E e \in DOMAIN fn_in :
        /\ ~HasSub(fn_in[e].tag, "Force")
        /\ \E i, j \in DOMAIN fn_in[e].kids :
            i < j /\ TypeCount(fn_in[e].kids[i]) < TypeCount(fn_in[e].kids[j])

(***************************************************************************)
(* Forcefield._parse_mm, lines 182-212.  The dictionaries of the object    *)
(* are functions from atom type names to values; dict[k] = v extends or    *)
(* overwrites.                                                             *)
(***************************************************************************)
EmptyDict == [n \in {} |-> <<>>]

DictSet(d, k, v) == [n \in DOMAIN d \cup {k} |-> IF n = k THEN v ELSE d[n]]

\* str.split(','): the pieces between commas, from position i on, cur being
\* the piece collected so far
RECURSIVE SplitFrom(_, _, _)
SplitFrom(s, i, cur) ==
    IF i > Len(s) THEN <<cur>>
    ELSE IF s[i] = "," THEN <<cur>> \o SplitFrom(s, i + 1, <<>>)
         ELSE SplitFrom(s, i + 1, Append(cur, s[i]))

Split(s) == SplitFrom(s, 1, <<>>)

\* str.strip(): leading and trailing blanks removed
RECURSIVE LStrip(_)
LStrip(s) == IF s # <<>> /\ Head(s) = " " THEN LStrip(Tail(s)) ELSE s

RECURSIVE RStrip(_)
RStrip(s) ==
    IF s # <<>> /\ s[Len(s)] = " " THEN RStrip(SubSeq(s, 1, Len(s) - 1)) ELSE s

Strip(s) == RStrip(LStrip(s))

\* set(x.strip() for x in value.split(','))
StrippedSet(value) == { Strip(Split(value)[i]) : i \in DOMAIN Split(value) }

AName      == <<"name">>
ADef       == <<"def">>
AOverrides == <<"overrides">>
ADesc      == <<"desc">>
ADoi       == <<"doi">>
AElement   == <<"element">>
AClass     == <<"class">>
AVersion   == <<"version">>

\* dict.get(key): None when the key is absent
Get(attrib, key) == IF key \in DOMAIN attrib THEN attrib[key] ELSE None

\* the object's fields that _parse_mm writes, as __init__ leaves them
\* (lines 112-121)
NewFields ==
    [atomTypeDefinitions |-> EmptyDict, atomTypeOverrides |-> EmptyDict,
     atomTypeDesc |-> EmptyDict, atomTypeRefs |-> EmptyDict,
     atomTypeClasses |-> EmptyDict, atomTypeElements |-> EmptyDict,
     version |-> None, name |-> None, parser |-> None]

\* a slip: the definition is stored whether or not the attribute is there
CopyDefAlways(self, name, attrib) ==
    [self EXCEPT !.atomTypeDefinitions = DictSet(@, name, Get(attrib, ADef))]

\* one pass of the loop body that tests for 'def', lines 194-195
CopyDef(self, name, attrib) ==
    IF ADef \in DOMAIN attrib
    THEN [self EXCEPT !.atomTypeDefinitions = DictSet(@, name, attrib[ADef])]
    ELSE self

\* lines 196-200
CopyOverrides(self, name, attrib) ==
    IF AOverrides \in DOMAIN attrib
    THEN LET overrides == StrippedSet(attrib[AOverrides])
         IN  IF overrides # {}
             THEN [self EXCEPT !.atomTypeOverrides = DictSet(@, name, overrides)]
             ELSE self
    ELSE self

\* lines 201-211
CopyRest(self, name, attrib) ==
    LET s1 == IF ADesc \in DOMAIN attrib
              THEN [self EXCEPT !.atomTypeDesc = DictSet(@, name, attrib[ADesc])]
              ELSE self
        s2 == IF ADoi \in DOMAIN attrib
              THEN [s1 EXCEPT !.atomTypeRefs = DictSet(@, name, StrippedSet(attrib[ADoi]))]
              ELSE s1
        s3 == IF AElement \in DOMAIN attrib
              THEN [s2 EXCEPT !.atomTypeElements = DictSet(@, name, attrib[AElement])]
              ELSE s2
    IN  IF AClass \in DOMAIN attrib
        THEN [s3 EXCEPT !.atomTypeClasses = DictSet(@, name, attrib[AClass])]
        ELSE s3

\* lines 192-211 over the children still to visit: [raised, self, seen], seen
\* being the children whose loop body ran to its end
RECURSIVE CopyTypes(_, _, _)
CopyTypes(self, atypes, seen) ==
    IF atypes = <<>> THEN [raised |-> None, self |-> self, seen |-> seen]
    ELSE LET atype == Head(atypes)
         IN  IF AName \notin DOMAIN atype.attrib
             THEN [raised |-> "KeyError", self |-> self, seen |-> seen]
             ELSE LET name == atype.attrib[AName]
                  IN  CopyTypes(
                          CopyRest(CopyOverrides(CopyDef(self, name, atype.attrib),
                                                 name, atype.attrib),
                                   name, atype.attrib),
                          Tail(atypes), Append(seen, atype))

\* root.findall('AtomTypes') and the inner loop: the children of every
\* element of root tagged exactly AtomTypes, in document order
RECURSIVE AtomTypeChildren(_)
AtomTypeChildren(elems) ==
    IF elems = <<>> THEN <<>>
    ELSE (IF Head(elems).tag = <<"AtomTypes">> THEN Head(elems).kids ELSE <<>>)
         \o AtomTypeChildren(Tail(elems))

\* lines 186-212 on a parsed document [attrib, elems]
ParseMMTree(self, doc) ==
    CopyTypes([self EXCEPT !.version = Get(doc.attrib, AVersion),
                           !.name = Get(doc.attrib, AName)],
              AtomTypeChildren(doc.elems), <<>>)

\* app.ForceField(forcefield_files), line 185, is OpenMM's loader.  It
\* registers every Type of AtomTypes under its name and refuses a document
\* in which a Type has no name or two Types share one; it may refuse a
\* document for reasons of its own as well.
NamesDistinct(doc) ==
    LET ts == AtomTypeChildren(doc.elems)
    IN  /\ \A i \in DOMAIN ts : AName \in DOMAIN ts[i].attrib
        /\ \A i, j \in DOMAIN ts :
              ts[i].attrib[AName] = ts[j].attrib[AName] => i = j

AppForceFieldOutcomes(doc) ==
    IF NamesDistinct(doc) THEN {"ok", "raise"} ELSE {"raise"}

\* _parse_mm on a document, given what app.ForceField did
ParseMM(self, doc, loaded) ==
    IF loaded = "raise"
    THEN [raised |-> "OpenMMError", self |-> self, seen |-> <<>>]
    ELSE ParseMMTree(self, doc)

(***************************************************************************)
(* Specification of _parse_mm alone: a document with one AtomTypes element *)
(* of at most MaxTypes Type children and one Force element.                *)
(***************************************************************************)
TypeNames == { <<"t", ToString(i)>> : i \in 1..MaxTypes }

OptAttrs == {ADef, AOverrides, ADesc, ADoi, AElement, AClass}

\* which optional attributes a Type carries: none, one, all but one, all
OptChoices ==
    {{}} \cup { {a} : a \in OptAttrs } \cup { OptAttrs \ {a} : a \in OptAttrs }
         \cup {OptAttrs}

TypeAttrib(name, opts, text) ==
    [a \in {AName} \cup opts |->
        IF a = AName THEN name
        ELSE IF a \in {AOverrides, ADoi} THEN text
        ELSE a \o name]

ForceKids ==
    << [id |-> 1, attrib |-> [a \in { <<"class", "1">>, <<"class", "2">> } |-> AttrV]],
       [id |-> 2, attrib |-> [a \in { <<"type", "1">>, <<"type", "2">> } |-> AttrV]] >>

\* the root's attributes and the text of the list attributes, together
DocVariants ==
    { [attrib |-> [a \in {} |-> <<>>], text |-> <<>>],
      [attrib |-> [a \in {AVersion, AName} |-> IF a = AName THEN <<"ff">> ELSE <<"1">>],
       text |-> <<"a">>],
      [attrib |-> [a \in {AVersion} |-> <<"1">>],
       text |-> <<"a", ",", " ", "b", " ">>] }

MMDoc(v, ns, os) ==
    [attrib |-> v.attrib,
     elems |-> << [tag |-> <<"AtomTypes">>,
                   kids |-> [i \in DOMAIN ns |->
                               [id |-> i, attrib |-> TypeAttrib(ns[i], os[i], v.text)]]],
                  [tag |-> <<"Harmonic", "Bond", "Force">>, kids |-> ForceKids] >>]

InitMM ==
    /\ CtorIdle
    /\ fn_pc = "call"
    /\ \E k \in 0..MaxTypes : \E v \in DocVariants :
         \E ns \in [1..k -> TypeNames] : \E os \in [1..k -> OptChoices] :
            fn_in = MMDoc(v, ns, os)
    /\ fn_out = None

ParseMMCall ==
    /\ fn_pc = "call"
    /\ \E loaded \in AppForceFieldOutcomes(fn_in) :
        fn_out' = ParseMM(NewFields, fn_in, loaded)
    /\ fn_pc' = "returned"
    /\ UNCHANGED <<fn_in, ctor_vars>>

SpecMM == InitMM /\ [][ParseMMCall]_vars

DictOf(self, a) ==
    CASE a = ADef -> self.atomTypeDefinitions
      [] a = AOverrides -> self.atomTypeOverrides
      [] a = ADesc -> self.atomTypeDesc
      [] a = ADoi -> self.atomTypeRefs
      [] a = AElement -> self.atomTypeElements
      [] a = AClass -> self.atomTypeClasses

Bound(v) == [bound |-> TRUE, v |-> v]
NotBound == [bound |-> FALSE, v |-> <<>>]

\* an exception: <<type, what it names>>
Raise(type, what) == <<type, what>>
NotRaised == <<None, "">>
IsRaised(e) == e[1] # None

Perms(S) == { p \in [1..Cardinality(S) -> S] : \A i, j \in DOMAIN p : p[i] = p[j] => i = j }

\* lines 123-127: list(forcefield_files) for a list, tuple or set (a set in
\* whatever order it iterates), [forcefield_files] for anything else
NormalizedLists(files) ==
    CASE files.kind \in {"list", "tuple"} -> { files.items }
      [] files.kind = "set" -> Perms({ files.items[i] : i \in DOMAIN files.items })
      [] OTHER -> { <<files.items>> }

\* what an instance answers to before line 129: the fields set in lines
\* 112-121, and what the class body defines (lines 159-218)
InstanceAttrs ==
    {"atomTypeDefinitions", "atomTypeOverrides", "atomTypeDesc", "atomTypeRefs",
     "atomTypeClasses", "atomTypeElements", "_included_forcefields",
     "non_element_types", "_version", "_name"}
ClassAttrs == {"version", "name", "_parse_gmso", "_parse_mm", "_parse_ff"}

\* self._included_forcefields, line 118
IncludedForcefields == EmptyDict

\* lines 129-135: file = self.included_forcefields[name]; a KeyError becomes
\* the IOError, an answer replaces the file list
ResolveName(n, files) ==
    IF n = None THEN [raised |-> NotRaised, files |-> files]
    ELSE IF "included_forcefields" \notin InstanceAttrs \cup ClassAttrs
         THEN [raised |-> Raise("AttributeError", "included_forcefields"), files |-> files]
         ELSE IF n \notin DOMAIN IncludedForcefields
              THEN [raised |-> Raise("IOError", n), files |-> files]
              ELSE [raised |-> NotRaised, files |-> Bound(<<IncludedForcefields[n]>>)]

\* an input that did not parse has no tree
NoDoc == [attrib |-> <<>>, elems |-> <<>>]

\* a slip: the text as read, not the escaped text, is kept when parsing fails
PreprocessOneLosesText(xml_file, parsed) ==
    IF parsed.ok
    THEN [kind |-> "xml", text |-> <<>>,
          root |-> [parsed.doc EXCEPT !.elems = SortByPrecedence(@)]]
    ELSE [kind |-> "text", text |-> xml_file.text, root |-> NoDoc]

\* the body of the loop of preprocess_forcefield_files for one input, lines
\* 44-82: what is written to the temporary file, given what ET.fromstring
\* made of the escaped text (the serialisation of the sorted tree, or the
\* escaped text itself)
PreprocessOne(xml_file, parsed) ==
    LET xml_contents == EscapeDefs(xml_file.text)
    IN  IF parsed.ok
        THEN [kind |-> "xml", text |-> <<>>,
              root |-> [parsed.doc EXCEPT !.elems = SortByPrecedence(@)]]
        ELSE [kind |-> "text", text |-> xml_contents, root |-> NoDoc]

\* lines 87-93: what preprocess_forcefield_files ends with
PreprocessResult(b, files) ==
    IF b = "openmm" THEN [raised |-> NotRaised, files |-> Bound(files)]
    ELSE IF b = "gmso"
         THEN [raised |-> Raise("NameError", "preprocess_files"), files |-> NotBound]
         ELSE [raised |-> Raise("FoyerError", "Backend not supported"), files |-> NotBound]

\* a slip: the validation loop is skipped
AfterPreprocessSkips(v, files) == "dispatch"

\* lines 139-141: where __init__ goes once the files are back
AfterPreprocess(v, files) ==
    IF v /\ files # <<>> THEN "validate" ELSE "dispatch"

\* Validator(ff_file_name, debug) is foyer.validator: it raises on a file
\* that is no XML, and may raise on one that is
ValidatorOutcomes(content) ==
    IF content.kind = "text" THEN {"raise"} ELSE {"ok", "raise"}

\* the loop one level out: every temporary file removed
DiskAfterParseRemoved(d, files) ==
    [n \in DOMAIN d \ { files[i] : i \in DOMAIN files } |-> d[n]]

\* what lines 153-155 leave on disk once a parse routine has returned: the
\* removal loop belongs to the else branch, behind the raise of line 151,
\* and never runs
DiskAfterParse(d, files) == d

\* _parse_gmso, lines 168-180, on what gmso made of the file: every atom type
\* gets an entry in five dictionaries
RECURSIVE CopyGmso(_, _)
CopyGmso(this, atypes) ==
    IF atypes = <<>> THEN this
    ELSE LET a == Head(atypes).attrib
             n == Get(a, AName)
         IN  CopyGmso([this EXCEPT
                          !.atomTypeDefinitions = DictSet(@, n, Get(a, ADef)),
                          !.atomTypeOverrides = DictSet(@, n, Get(a, AOverrides)),
                          !.atomTypeDesc = DictSet(@, n, Get(a, ADesc)),
                          !.atomTypeRefs = DictSet(@, n, Get(a, ADoi)),
                          !.atomTypeClasses = DictSet(@, n, Get(a, AClass))],
                      Tail(atypes))

ParseGmso(this, content, loaded) ==
    IF loaded = "raise" \/ content.kind = "text"
    THEN [raised |-> Raise("GmsoError", ""), self |-> this]
    ELSE [raised |-> NotRaised,
          self |-> CopyGmso([this EXCEPT !.version = Get(content.root.attrib, AVersion),
                                         !.name = Get(content.root.attrib, AName)],
                            AtomTypeChildren(content.root.elems))]

\* _parse_mm on a temporary file: app.ForceField first (line 185), then
\* ET.parse (line 186), then the copying
ParseMMFile(this, content, loaded) ==
    IF loaded = "raise" THEN [raised |-> Raise("OpenMMError", ""), self |-> this]
    ELSE IF content.kind = "text" THEN [raised |-> Raise("ParseError", ""), self |-> this]
    ELSE LET r == ParseMM(this, content.root, loaded)
         IN  [raised |-> IF r.raised = None THEN NotRaised ELSE Raise(r.raised, ""),
              self |-> r.self]

\* what the external loader of the chosen backend can do with the files
LoaderOutcomes(b, files, d) ==
    IF Len(files) = 1 /\ b \in {"gmso", "openmm"}
    THEN IF d[files[1]].kind = "text" THEN {"raise"}
         ELSE AppForceFieldOutcomes(d[files[1]].root)
    ELSE {"ok"}

\* lines 144-151: self._parse_x(*preprocessed_files); every routine takes
\* exactly one argument besides self.  calls: the routines whose body started
RunBackend(this, b, files, d, loaded) ==
    IF b \notin {"gmso", "openmm", "openff"}
    THEN [raised |-> Raise("FoyerError", "Unsupported backend"), self |-> this, calls |-> <<>>]
    ELSE IF Len(files) # 1
         THEN [raised |-> Raise("TypeError", "positional arguments"), self |-> this,
               calls |-> <<>>]
         ELSE CASE b = "gmso" ->
                     LET r == ParseGmso(this, d[files[1]], loaded)
                     IN  [raised |-> r.raised, self |-> r.self, calls |-> <<"_parse_gmso">>]
                [] b = "openmm" ->
                     LET r == ParseMMFile(this, d[files[1]], loaded)
                     IN  [raised |-> r.raised, self |-> r.self, calls |-> <<"_parse_mm">>]
                [] b = "openff" ->
                     \* line 217: the name forcefield is not defined
                     [raised |-> Raise("NameError", "forcefield"), self |-> this,
                      calls |-> <<"_parse_ff">>]

(***************************************************************************)
(* The constructor as a state machine                                      *)
(***************************************************************************)
FileA == [path |-> "a.xml", text |-> <<"d", "e", "f", "=", "\"", "&", "\"">>]
FileB == [path |-> "b.xml", text |-> <<"x", "&">>]
Files == {FileA, FileB}

Backends == {"gmso", "openmm", "openff", "lammps"}

DocA ==
    [attrib |-> [a \in {AVersion, AName} |-> IF a = AName THEN <<"ff">> ELSE <<"1">>],
     elems |-> << [tag |-> <<"AtomTypes">>,
                   kids |-> << [id |-> 1, attrib |-> TypeAttrib(<<"t", "1">>, {ADef, ADoi}, <<"a">>)],
                               [id |-> 2, attrib |-> TypeAttrib(<<"t", "2">>, {}, <<"a">>)] >>],
                  [tag |-> <<"Harmonic", "Bond", "Force">>, kids |-> ForceKids] >>]

\* two Types under one name
DocB ==
    [attrib |-> [a \in {} |-> <<>>],
     elems |-> << [tag |-> <<"AtomTypes">>,
                   kids |-> << [id |-> 1, attrib |-> TypeAttrib(<<"t", "1">>, {ADef}, <<"a">>)],
                               [id |-> 2, attrib |-> TypeAttrib(<<"t", "1">>, {AClass}, <<"a">>)] >>] >>]

\* what ET.fromstring (line 63) can make of an escaped text: an & that
\* starts no entity is not well-formed and gives a ParseError; any other
\* text may fail for reasons of its own or give a tree
HasStrayAmp(text) ==
    \E i \in DOMAIN text : text[i] = "&" /\ ~HasAt(text, i + 1, LitAmp)

FromStringOutcomes(xml_contents) ==
    IF HasStrayAmp(xml_contents)
    THEN { [ok |-> FALSE, doc |-> NoDoc] }
    ELSE { [ok |-> FALSE, doc |-> NoDoc], [ok |-> TRUE, doc |-> DocA],
           [ok |-> TRUE, doc |-> DocB] }

FileArgs ==
    { [kind |-> None, items |-> <<>>] }
    \cup { [kind |-> "single", items |-> f] : f \in Files }
    \cup { [kind |-> k, items |-> fs] : k \in {"list", "tuple"}, fs \in SeqsUpTo(Files, MaxFiles) }
    \cup { [kind |-> "set", items |-> CHOOSE p \in Perms(S) : TRUE] :
             S \in { T \in SUBSET Files : Cardinality(T) <= MaxFiles } }

Init ==
    /\ FnIdle
    /\ forcefield_files \in FileArgs
    /\ name_arg \in {None, "oplsaa"}
    /\ validation \in BOOLEAN
    /\ backend \in Backends
    /\ pc = "call"
    /\ all_files_to_load = NotBound
    /\ written = <<>>
    /\ preprocessed_files = NotBound
    /\ disk = <<>>
    /\ roots = <<>>
    /\ warned = {}
    /\ validated = <<>>
    /\ parse_calls = <<>>
    /\ raised = NotRaised
    /\ obj = NewFields

\* lines 112-138, up to the call of preprocess_forcefield_files
Begin ==
    /\ pc = "call"
    /\ \E files \in (IF forcefield_files.kind = None THEN {NotBound}
                     ELSE { Bound(l) : l \in NormalizedLists(forcefield_files) }) :
        LET r == ResolveName(name_arg, files)
        IN  /\ all_files_to_load' = r.files
            /\ raised' = IF IsRaised(r.raised) THEN r.raised
                         ELSE IF ~r.files.bound
                              THEN Raise("UnboundLocalError", "all_files_to_load")
                              ELSE NotRaised
            /\ pc' = IF IsRaised(r.raised) \/ ~r.files.bound THEN "raised" ELSE "preprocess"
    /\ obj' = NewFields
    /\ UNCHANGED <<fn_vars, forcefield_files, name_arg, validation, backend, written,
                   preprocessed_files, disk, roots, warned, validated, parse_calls>>

\* one turn of the loop of lines 43-85
PreprocessFile ==
    /\ pc = "preprocess"
    /\ Len(written) < Len(all_files_to_load.v)
    /\ LET i == Len(written) + 1
       IN  \E parsed \in FromStringOutcomes(EscapeDefs(all_files_to_load.v[i].text)) :
             /\ disk' = Append(disk, PreprocessOne(all_files_to_load.v[i], parsed))
             /\ written' = Append(written, i)
             /\ roots' = Append(roots, parsed.ok)
             /\ warned' = IF parsed.ok THEN warned ELSE warned \cup {i}
    /\ UNCHANGED <<fn_vars, forcefield_files, name_arg, validation, backend, pc,
                   all_files_to_load, preprocessed_files, validated, parse_calls,
                   raised, obj>>

\* lines 87-93 and the return to line 138
PreprocessReturn ==
    /\ pc = "preprocess"
    /\ Len(written) = Len(all_files_to_load.v)
    /\ LET r == PreprocessResult(backend, written)
       IN  /\ preprocessed_files' = r.files
           /\ raised' = r.raised
           /\ pc' = IF IsRaised(r.raised) THEN "raised"
                    ELSE AfterPreprocess(validation, written)
    /\ UNCHANGED <<fn_vars, forcefield_files, name_arg, validation, backend,
                   all_files_to_load, written, disk, roots, warned, validated,
                   parse_calls, obj>>

\* one turn of the loop of lines 140-141
Validate ==
    /\ pc = "validate"
    /\ LET k == Len(validated) + 1
           ff_file_name == preprocessed_files.v[k]
       IN  \E outcome \in ValidatorOutcomes(disk[ff_file_name]) :
             /\ validated' = Append(validated, ff_file_name)
             /\ raised' = IF outcome = "raise" THEN Raise("ValidationError", "") ELSE NotRaised
             /\ pc' = IF outcome = "raise" THEN "raised"
                      ELSE IF k = Len(preprocessed_files.v) THEN "dispatch" ELSE "validate"
    /\ UNCHANGED <<fn_vars, forcefield_files, name_arg, validation, backend,
                   all_files_to_load, written, preprocessed_files, disk, roots, warned,
                   parse_calls, obj>>

\* lines 144-157
Dispatch ==
    /\ pc = "dispatch"
    /\ \E loaded \in LoaderOutcomes(backend, preprocessed_files.v, disk) :
        LET r == RunBackend(obj, backend, preprocessed_files.v, disk, loaded)
        IN  /\ parse_calls' = parse_calls \o r.calls
            /\ raised' = r.raised
            /\ obj' = IF IsRaised(r.raised) THEN r.self
                      ELSE [r.self EXCEPT !.parser = "SMARTS"]
            /\ disk' = IF IsRaised(r.raised) THEN disk
                       ELSE DiskAfterParse(disk, preprocessed_files.v)
            /\ pc' = IF IsRaised(r.raised) THEN "raised" ELSE "done"
    /\ UNCHANGED <<fn_vars, forcefield_files, name_arg, validation, backend,
                   all_files_to_load, written, preprocessed_files, roots, warned,
                   validated>>

Next == Begin \/ PreprocessFile \/ PreprocessReturn \/ Validate \/ Dispatch

Spec == Init /\ [][Next]_vars

Ended == pc \in {"done", "raised"}

Supported == {"gmso", "openmm", "openff"}

\* exceptions of the collaborators (Validator, OpenMM, gmso), not of this file
ExternalErrors == {"ValidationError", "OpenMMError", "GmsoError"}

\* files were given, no name, and every input parsed as XML
GivenFilesParsed ==
    /\ name_arg = None
    /\ all_files_to_load.bound
    /\ Len(roots) = Len(all_files_to_load.v)
    /\ \A i \in DOMAIN roots : roots[i]

\* C3 (as claimed): with a backend other than gmso, openmm and openff the
\* constructor ends by raising FoyerError, no parse routine has run and no
\* object is returned.
C3_UnsupportedBackendRaisesFoyerError ==
    (Ended /\ backend \notin Supported) =>
        /\ pc = "raised"
        /\ raised[1] = "FoyerError"
        /\ parse_calls = <<>>

\* C4 (as claimed): with a name that is not in the registry the constructor
\* ends with the IOError naming it, nothing preprocessed, nothing parsed.
C4_UnknownNameRaisesIOError ==
    (Ended /\ name_arg # None /\ name_arg \notin DOMAIN IncludedForcefields) =>
        /\ pc = "raised"
        /\ raised = Raise("IOError", name_arg)
        /\ written = <<>>
        /\ parse_calls = <<>>

RoutineOf(b) ==
    CASE b = "gmso" -> "_parse_gmso" [] b = "openmm" -> "_parse_mm" [] b = "openff" -> "_parse_ff"

\* C5 (as claimed): with one valid file and a backend among gmso, openmm and
\* openff, the parse routine of that backend runs, once, and no other
\* (a file is valid when it parses and no collaborator refuses it).
C5_SelectedParseRoutineRuns ==
    (/\ Ended
     /\ backend \in Supported
     /\ GivenFilesParsed
     /\ Len(all_files_to_load.v) = 1
     /\ raised[1] \notin ExternalErrors) =>
        parse_calls = <<RoutineOf(backend)>>

\* C6: with validation requested, the Validator sees a file only once
\* preprocessing has returned for all inputs; a parse routine is reached only
\* once every preprocessed file has been handed to the Validator; and when
\* the Validator raises no parse routine runs.
C6_PreprocessThenValidateThenParse ==
    validation =>
        /\ validated # <<>> =>
              /\ preprocessed_files.bound
              /\ Len(written) = Len(all_files_to_load.v)
        /\ (pc = "dispatch" \/ parse_calls # <<>>) =>
              /\ preprocessed_files.bound
              /\ validated = preprocessed_files.v
        /\ raised[1] = "ValidationError" => parse_calls = <<>>

\* validation ran on the one file and _parse_mm ran after it
C6_Witness ==
    /\ validation
    /\ pc = "done"
    /\ validated = <<1>>
    /\ parse_calls = <<"_parse_mm">>

\* C7 (as claimed): with the openmm backend and n >= 1 valid files, given as
\* one file or as a list, tuple or set, the constructor makes a list of n
\* files, writes n temporary files, runs _parse_mm and completes.
C7_EveryNumberOfFilesLoads ==
    (/\ Ended
     /\ backend = "openmm"
     /\ GivenFilesParsed
     /\ Len(all_files_to_load.v) >= 1
     /\ raised[1] \notin ExternalErrors) =>
        /\ pc = "done"
        /\ Len(written) = Len(all_files_to_load.v)
        /\ parse_calls = <<"_parse_mm">>

\* C8: when the constructor ends, by returning or by raising, every
\* temporary file that preprocessing wrote is still on disk.
C8_TemporaryFilesOutliveInit ==
    Ended => \A i \in DOMAIN written : written[i] \in DOMAIN disk

\* a construction that returned, its temporary file still there
C8_Witness ==
    /\ pc = "done"
    /\ written # <<>>
    /\ \A i \in DOMAIN written : written[i] \in DOMAIN disk

\* C10: an input whose escaped text does not parse gets a warning and a
\* temporary file holding the escaped text as it is; no ParseError leaves
\* preprocessing; and the loop goes on through the remaining inputs.
C10_ParseErrorIsSwallowed ==
    /\ \A i \in DOMAIN roots :
          ~roots[i] =>
              /\ i \in warned
              /\ i \in DOMAIN disk
              /\ disk[i].kind = "text"
              /\ disk[i].text = EscapeDefs(all_files_to_load.v[i].text)
    /\ raised[1] = "ParseError" => parse_calls # <<>>
    /\ (preprocessed_files.bound \/ raised[1] \in {"NameError", "FoyerError"}) =>
          Len(written) = Len(all_files_to_load.v)

\* the first of two inputs did not parse, its escaped text differs from what
\* was read, and the second was parsed and written after it
C10_Witness ==
    /\ preprocessed_files.bound
    /\ roots = <<FALSE, TRUE>>
    /\ disk[1].kind = "text"
    /\ disk[1].text # all_files_to_load.v[1].text
    /\ disk[2].kind = "xml"
    /\ warned = {1}

====
